---- MODULE Spec2Model ----
(***************************************************************************)
(* State-machine model of                                                  *)
(*   examples/src/main/python/ml/estimator_transformer_param_example.py    *)
(*                                                                         *)
(* The script is one sequential flow: acquire the compute context, build   *)
(* a training DataFrame, configure a LogisticRegression estimator, fit,    *)
(* build override dictionaries, fit again with the overrides, transform a  *)
(* test DataFrame, select and print rows, release the context.             *)
(*                                                                         *)
(* Encoding of values:                                                     *)
(*   - Python floats with at most two decimals that are hyperparameters    *)
(*     (regParam, threshold) are integers in hundredths: 0.01 -> 1,        *)
(*     0.1 -> 10, 0.55 -> 55, 0.5 -> 50;                                   *)
(*   - labels 1.0 / 0.0 are 1 / 0; feature components are integers in      *)
(*     tenths: 1.1 -> 11, -0.5 -> -5;                                      *)
(*   - a Param key (lr.maxIter, ...) is the string of its name;            *)
(*   - a Python dict is a function with a finite domain; dict objects      *)
(*     live in a heap and the script's names hold references to them, so   *)
(*     that aliasing and copying are distinguishable.                      *)
(***************************************************************************)
EXTENDS Integers, Sequences, FiniteSets, TLC

VARIABLES
    pc,               \* the statement the script executes next
    status,           \* "running", "aborted" (uncaught exception), "exited"
    failedAt,         \* the statement whose call raised, or "none"
    calls,            \* history: every statement executed, with the context state it saw
    sc,               \* compute context: "none", "active", "stopped"
    acquires,         \* number of SparkContext constructions
    releases,         \* number of sc.stop() calls that completed
    sqlContext,       \* TRUE once SQLContext(sc) has been built
    training,         \* DataFrame bound to `training`
    test,             \* DataFrame bound to `test`
    lr,               \* the estimator bound to `lr`
    model1,           \* model bound to `model1`
    model2,           \* model bound to `model2`
    heap,             \* sequence of dict objects; a reference is an index
    paramMap,         \* reference held by `paramMap` (0 = unbound)
    paramMap2,        \* reference held by `paramMap2`
    paramMapCombined, \* reference held by `paramMapCombined`
    prediction,       \* DataFrame bound to `prediction`
    selected,         \* DataFrame bound to `selected`
    collected,        \* the list returned by selected.collect()
    rowIdx,           \* number of rows of `collected` already printed
    stdout            \* what the script has printed

ctl   == <<pc, status, failedAt, calls>>
ctx   == <<sc, acquires, releases, sqlContext>>
data  == <<training, test>>
est   == <<lr, model1, model2>>
maps  == <<heap, paramMap, paramMap2, paramMapCombined>>
out   == <<prediction, selected, collected, rowIdx, stdout>>
vars  == <<pc, status, failedAt, calls, sc, acquires, releases, sqlContext,
           training, test, lr, model1, model2, heap, paramMap, paramMap2,
           paramMapCombined, prediction, selected, collected, rowIdx, stdout>>

-----------------------------------------------------------------------------
(* Bounds *)

\* number of distinct coefficient vectors the opaque optimiser may return
NumCoefs == 3

\* keys and per-key values from which arbitrary override maps are drawn
MergeKeys == {"maxIter", "regParam", "probabilityCol"}

MergeVals(k) ==
    IF k = "maxIter" THEN {20, 30}
    ELSE IF k = "regParam" THEN {1, 10}
    ELSE {"probability", "myProbability"}

-----------------------------------------------------------------------------
(* Python dict *)

EmptyDict == [k \in {} |-> 0]

\* setdefault semantics: an existing key keeps its value
DictSetKeepExisting(d, k, v) ==
    [x \in DOMAIN d \cup {k} |-> IF x \in DOMAIN d THEN d[x] ELSE v]

\* d[k] = v
DictSet(d, k, v) == [x \in DOMAIN d \cup {k} |-> IF x = k THEN v ELSE d[x]]

\* first write wins: keys already in a keep a's value
DictUpdateKeepExisting(a, b) ==
    [k \in DOMAIN a \cup DOMAIN b |-> IF k \in DOMAIN a THEN a[k] ELSE b[k]]

\* a.update(b), as the resulting contents of a
DictUpdate(a, b) == [k \in DOMAIN a \cup DOMAIN b |-> IF k \in DOMAIN b THEN b[k] ELSE a[k]]

\* allocate a new dict object holding d; the new reference is Len(h) + 1
Alloc(h, d) == Append(h, d)

\* a.copy(): a new object with the contents of the object at reference r
HeapCopy(h, r) == Alloc(h, h[r])

\* all dicts whose key set is exactly s, each value drawn from MergeVals
RECURSIVE DictsOver(_)
DictsOver(s) ==
    IF s = {} THEN {EmptyDict}
    ELSE LET k == CHOOSE x \in s : TRUE
         IN { DictSet(d, k, v) : d \in DictsOver(s \ {k}), v \in MergeVals(k) }

\* all dicts over a subset of the keys ks
TypedDicts(ks) == UNION { DictsOver(s) : s \in SUBSET ks }

-----------------------------------------------------------------------------
(* DataFrame *)

NoData == [bound |-> FALSE, columns |-> <<>>, rows |-> <<>>]

Range(s) == { s[i] : i \in 1..Len(s) }

IndexOf(s, x) == CHOOSE i \in 1..Len(s) : s[i] = x

\* createDataFrame(list of tuples, column names)
CreateDataFrame(tuples, names) ==
    [bound   |-> TRUE,
     columns |-> names,
     rows    |-> [i \in 1..Len(tuples) |-> [c \in Range(names) |-> tuples[i][IndexOf(names, c)]]]]

TrainingTuples ==
    << <<1, <<0, 11, 1>>>>,
       <<0, <<20, 10, -10>>>>,
       <<0, <<20, 13, 10>>>>,
       <<1, <<0, 12, -5>>>> >>

TestTuples ==
    << <<1, <<-10, 15, 13>>>>,
       <<0, <<30, 20, -1>>>>,
       <<1, <<0, 22, -15>>>> >>

ColumnNames == <<"label", "features">>

\* df.select(cols...): defined when every requested column exists
CanSelect(df, cols) == Range(cols) \subseteq Range(df.columns)

Select(df, cols) ==
    [bound   |-> TRUE,
     columns |-> cols,
     rows    |-> [i \in 1..Len(df.rows) |-> [c \in Range(cols) |-> df.rows[i][c]]]]

SelectedColumns == <<"features", "label", "myProbability", "prediction">>

-----------------------------------------------------------------------------
(* Estimator, Model *)

ParamDefaults ==
    [maxIter |-> 100, regParam |-> 10, threshold |-> 50, probabilityCol |-> "probability"]

NoEstimator == [bound |-> FALSE, paramMap |-> EmptyDict]

\* LogisticRegression(maxIter=.., regParam=..)
LogisticRegression(maxIter, regParam) ==
    [bound |-> TRUE, paramMap |-> [maxIter |-> maxIter, regParam |-> regParam]]

NoModel == [bound |-> FALSE, params |-> EmptyDict, coef |-> 0]

Coefs == 1..NumCoefs

\* estimator.fit(dataset, overrides): the overrides are applied to a copy of
\* the estimator, the model keeps the resolved parameter values; c is the
\* coefficient vector found by the optimiser
Fit(e, dataset, overrides, c) ==
    [bound  |-> TRUE,
     params |-> DictUpdate(DictUpdate(ParamDefaults, e.paramMap), overrides),
     coef   |-> c]

\* model.extractParamMap()
ExtractParamMap(m) == m.params

Weights(c) == <<2 - c, c, 1>>

Dot(w, f) == w[1] * f[1] + w[2] * f[2] + w[3] * f[3]

Clamp(x) == IF x < 0 THEN 0 ELSE IF x > 100 THEN 100 ELSE x

\* model.transform(df): every input row is kept and gains the raw prediction,
\* the probability under the configured column name, and the prediction
Transform(m, df) ==
    LET probCol == m.params["probabilityCol"]
        added   == <<"rawPrediction", probCol, "prediction">>
        raw(r)  == Dot(Weights(m.coef), r["features"])
        prob(r) == Clamp(50 + raw(r))
        row(r)  == [c \in DOMAIN r \cup Range(added) |->
                        IF c \in DOMAIN r THEN r[c]
                        ELSE IF c = "rawPrediction" THEN raw(r)
                        ELSE IF c = probCol THEN prob(r)
                        ELSE IF prob(r) > m.params["threshold"] THEN 1 ELSE 0]
    IN [bound   |-> TRUE,
        columns |-> df.columns \o added,
        rows    |-> [i \in 1..Len(df.rows) |-> row(df.rows[i])]]

-----------------------------------------------------------------------------
(* Control *)

\* the statement at `from` runs to completion and control moves to `to`
Step(from, to) ==
    /\ status = "running"
    /\ pc = from
    /\ pc' = to
    /\ calls' = Append(calls, [op |-> from, ctx |-> sc])
    /\ UNCHANGED <<status, failedAt>>

\* statements that call into the library; the others only build or update
\* dicts or print a collected row
LibraryCalls ==
    {"context", "sqlContext", "createTraining", "newEstimator", "explainParams",
     "fit1", "extract1", "fit2", "extract2", "createTest", "transform", "select",
     "collect", "stop"}

Init ==
    /\ pc = "context"
    /\ status = "running"
    /\ failedAt = "none"
    /\ calls = <<>>
    /\ sc = "none"
    /\ acquires = 0
    /\ releases = 0
    /\ sqlContext = FALSE
    /\ training = NoData
    /\ test = NoData
    /\ lr = NoEstimator
    /\ model1 = NoModel
    /\ model2 = NoModel
    /\ heap = <<>>
    /\ paramMap = 0
    /\ paramMap2 = 0
    /\ paramMapCombined = 0
    /\ prediction = NoData
    /\ selected = NoData
    /\ collected = <<>>
    /\ rowIdx = 0
    /\ stdout = <<>>

\* sc = SparkContext(appName=...)
CreateContext ==
    /\ Step("context", "sqlContext")
    /\ sc' = "active"
    /\ acquires' = acquires + 1
    /\ UNCHANGED <<releases, sqlContext, data, est, maps, out>>

\* sqlContext = SQLContext(sc)
CreateSQLContext ==
    /\ Step("sqlContext", "createTraining")
    /\ sqlContext' = TRUE
    /\ UNCHANGED <<sc, acquires, releases, data, est, maps, out>>

\* training = sqlContext.createDataFrame([...], ["label", "features"])
CreateTraining ==
    /\ Step("createTraining", "newEstimator")
    /\ training' = CreateDataFrame(TrainingTuples, ColumnNames)
    /\ UNCHANGED <<ctx, test, est, maps, out>>

\* lr = LogisticRegression(maxIter=10, regParam=0.01)
NewEstimator ==
    /\ Step("newEstimator", "explainParams")
    /\ lr' = LogisticRegression(10, 1)
    /\ UNCHANGED <<ctx, data, model1, model2, maps, out>>

\* print "LogisticRegression parameters:\n" + lr.explainParams() + "\n"
ExplainParams ==
    /\ Step("explainParams", "fit1")
    /\ stdout' = Append(stdout, [kind |-> "explainParams", val |-> lr.paramMap])
    /\ UNCHANGED <<ctx, data, est, maps, prediction, selected, collected, rowIdx>>

\* model1 = lr.fit(training)
FitModel1 ==
    /\ Step("fit1", "extract1")
    /\ \E c \in Coefs : model1' = Fit(lr, training, EmptyDict, c)
    /\ UNCHANGED <<ctx, data, lr, model2, maps, out>>

\* print "Model 1 was fit using parameters: "; print model1.extractParamMap()
PrintModel1 ==
    /\ Step("extract1", "newParamMap")
    /\ stdout' = Append(stdout, [kind |-> "model1", val |-> ExtractParamMap(model1)])
    /\ UNCHANGED <<ctx, data, est, maps, prediction, selected, collected, rowIdx>>

\* paramMap = {lr.maxIter: 20}
NewParamMap ==
    /\ Step("newParamMap", "setMaxIter")
    /\ heap' = Alloc(heap, [maxIter |-> 20])
    /\ paramMap' = Len(heap) + 1
    /\ UNCHANGED <<ctx, data, est, paramMap2, paramMapCombined, out>>

\* paramMap[lr.maxIter] = 30
SetMaxIter ==
    /\ Step("setMaxIter", "updateParamMap")
    /\ heap' = [heap EXCEPT ![paramMap] = DictSet(heap[paramMap], "maxIter", 30)]
    /\ UNCHANGED <<ctx, data, est, paramMap, paramMap2, paramMapCombined, out>>

\* paramMap.update({lr.regParam: 0.1, lr.threshold: 0.55})
UpdateParamMap ==
    /\ Step("updateParamMap", "newParamMap2")
    /\ heap' = [heap EXCEPT ![paramMap] =
                    DictUpdate(heap[paramMap], [regParam |-> 10, threshold |-> 55])]
    /\ UNCHANGED <<ctx, data, est, paramMap, paramMap2, paramMapCombined, out>>

\* paramMap2 = {lr.probabilityCol: "myProbability"}
NewParamMap2 ==
    /\ Step("newParamMap2", "copy")
    /\ heap' = Alloc(heap, [probabilityCol |-> "myProbability"])
    /\ paramMap2' = Len(heap) + 1
    /\ UNCHANGED <<ctx, data, est, paramMap, paramMapCombined, out>>

\* paramMapCombined = paramMap, a second name for the same dict object
AliasParamMap ==
    /\ Step("copy", "updateCombined")
    /\ paramMapCombined' = paramMap
    /\ UNCHANGED <<ctx, data, est, heap, paramMap, paramMap2, out>>

\* paramMapCombined = paramMap.copy()
CopyParamMap ==
    /\ Step("copy", "updateCombined")
    /\ heap' = HeapCopy(heap, paramMap)
    /\ paramMapCombined' = Len(heap) + 1
    /\ UNCHANGED <<ctx, data, est, paramMap, paramMap2, out>>

\* paramMapCombined.update(paramMap2)
UpdateCombined ==
    /\ Step("updateCombined", "fit2")
    /\ heap' = [heap EXCEPT ![paramMapCombined] =
                    DictUpdate(heap[paramMapCombined], heap[paramMap2])]
    /\ UNCHANGED <<ctx, data, est, paramMap, paramMap2, paramMapCombined, out>>

\* model2 = lr.fit(training), the override map left out
FitModel2WithoutOverrides ==
    /\ Step("fit2", "extract2")
    /\ \E c \in Coefs : model2' = Fit(lr, training, EmptyDict, c)
    /\ UNCHANGED <<ctx, data, lr, model1, maps, out>>

\* model2 = lr.fit(training, paramMap), the uncombined map passed
FitModel2WithParamMap ==
    /\ Step("fit2", "extract2")
    /\ \E c \in Coefs : model2' = Fit(lr, training, heap[paramMap], c)
    /\ UNCHANGED <<ctx, data, lr, model1, maps, out>>

\* the overrides are stored into lr itself before fitting
FitModel2SettingEstimator ==
    /\ Step("fit2", "extract2")
    /\ lr' = [lr EXCEPT !.paramMap = DictUpdate(lr.paramMap, heap[paramMapCombined])]
    /\ \E c \in Coefs : model2' = Fit(lr', training, EmptyDict, c)
    /\ UNCHANGED <<ctx, data, model1, maps, out>>

\* model1 = lr.fit(training, paramMapCombined), the first model's name reused
FitModel2RebindingModel1 ==
    /\ Step("fit2", "extract2")
    /\ \E c \in Coefs : model1' = Fit(lr, training, heap[paramMapCombined], c)
    /\ model2' = model1'
    /\ UNCHANGED <<ctx, data, lr, maps, out>>

\* model2 = lr.fit(training, paramMapCombined)
FitModel2 ==
    /\ Step("fit2", "extract2")
    /\ \E c \in Coefs : model2' = Fit(lr, training, heap[paramMapCombined], c)
    /\ UNCHANGED <<ctx, data, lr, model1, maps, out>>

\* print "Model 2 was fit using parameters: "; print model2.extractParamMap()
PrintModel2 ==
    /\ Step("extract2", "createTest")
    /\ stdout' = Append(stdout, [kind |-> "model2", val |-> ExtractParamMap(model2)])
    /\ UNCHANGED <<ctx, data, est, maps, prediction, selected, collected, rowIdx>>

\* test = sqlContext.createDataFrame([...], ["label", "features"])
CreateTest ==
    /\ Step("createTest", "transform")
    /\ test' = CreateDataFrame(TestTuples, ColumnNames)
    /\ UNCHANGED <<ctx, training, est, maps, out>>

\* prediction = model2.transform(training), the wrong DataFrame passed
TransformTraining ==
    /\ Step("transform", "select")
    /\ prediction' = Transform(model2, training)
    /\ UNCHANGED <<ctx, data, est, maps, selected, collected, rowIdx, stdout>>

\* prediction = model2.transform(test)
TransformTest ==
    /\ Step("transform", "select")
    /\ prediction' = Transform(model2, test)
    /\ UNCHANGED <<ctx, data, est, maps, selected, collected, rowIdx, stdout>>

\* selected = prediction.select("features", "label", "myProbability", "prediction")
SelectColumns ==
    /\ CanSelect(prediction, SelectedColumns)
    /\ Step("select", "collect")
    /\ selected' = Select(prediction, SelectedColumns)
    /\ UNCHANGED <<ctx, data, est, maps, prediction, collected, rowIdx, stdout>>

\* selected.collect(), evaluated once at the head of the for loop
Collect ==
    /\ Step("collect", IF Len(selected.rows) = 0 THEN "stop" ELSE "printRow")
    /\ collected' = selected.rows
    /\ rowIdx' = 0
    /\ UNCHANGED <<ctx, data, est, maps, prediction, selected, stdout>>

\* for row in ...: print row
PrintRow ==
    /\ rowIdx < Len(collected)
    /\ Step("printRow", IF rowIdx + 1 = Len(collected) THEN "stop" ELSE "printRow")
    /\ rowIdx' = rowIdx + 1
    /\ stdout' = Append(stdout, [kind |-> "row", val |-> collected[rowIdx + 1]])
    /\ UNCHANGED <<ctx, data, est, maps, prediction, selected, collected>>

\* the script ends without calling sc.stop()
ExitWithoutStop ==
    /\ pc = "stop"
    /\ status = "running"
    /\ pc' = "done"
    /\ status' = "exited"
    /\ UNCHANGED <<failedAt, calls, ctx, data, est, maps, out>>

\* sc.stop(), then the interpreter reaches the end of the file
StopContext ==
    /\ pc = "stop"
    /\ status = "running"
    /\ pc' = "done"
    /\ status' = "exited"
    /\ calls' = Append(calls, [op |-> "stop", ctx |-> sc])
    /\ sc' = "stopped"
    /\ releases' = releases + 1
    /\ UNCHANGED <<failedAt, acquires, sqlContext, data, est, maps, out>>

\* the exception is caught and the call is attempted again
FailAndRetry ==
    /\ status = "running"
    /\ pc \in LibraryCalls
    /\ failedAt' = pc
    /\ calls' = Append(calls, [op |-> pc, ctx |-> sc])
    /\ UNCHANGED <<pc, status, ctx, data, est, maps, out>>

\* a library call raises: there is no try/except anywhere in the script, so
\* the exception leaves __main__ and the interpreter ends the script there
Fail ==
    /\ status = "running"
    /\ pc \in LibraryCalls
    /\ status' = "aborted"
    /\ failedAt' = pc
    /\ calls' = Append(calls, [op |-> pc, ctx |-> sc])
    /\ UNCHANGED <<pc, ctx, data, est, maps, out>>

Next ==
    \/ CreateContext
    \/ CreateSQLContext
    \/ CreateTraining
    \/ NewEstimator
    \/ ExplainParams
    \/ FitModel1
    \/ PrintModel1
    \/ NewParamMap
    \/ SetMaxIter
    \/ UpdateParamMap
    \/ NewParamMap2
    \/ CopyParamMap
    \/ UpdateCombined
    \/ FitModel2
    \/ PrintModel2
    \/ CreateTest
    \/ TransformTest
    \/ SelectColumns
    \/ Collect
    \/ PrintRow
    \/ StopContext
    \/ Fail

Spec == Init /\ [][Next]_vars

\* the interpreter always executes the next statement
FairSpec == Spec /\ WF_vars(Next)

-----------------------------------------------------------------------------
(* Merging two arbitrary override maps: lines 62-63 applied to any A and B *)

MergeInit ==
    /\ pc = "copy"
    /\ status = "running"
    /\ failedAt = "none"
    /\ calls = <<>>
    /\ sc = "active"
    /\ acquires = 1
    /\ releases = 0
    /\ sqlContext = TRUE
    /\ training = NoData
    /\ test = NoData
    /\ lr = NoEstimator
    /\ model1 = NoModel
    /\ model2 = NoModel
    /\ \E A \in TypedDicts(MergeKeys), B \in TypedDicts(MergeKeys) : heap = <<A, B>>
    /\ paramMap = 1
    /\ paramMap2 = 2
    /\ paramMapCombined = 0
    /\ prediction = NoData
    /\ selected = NoData
    /\ collected = <<>>
    /\ rowIdx = 0
    /\ stdout = <<>>

MergeNext == CopyParamMap \/ UpdateCombined

MergeSpec == MergeInit /\ [][MergeNext]_vars

-----------------------------------------------------------------------------
(* Properties *)

\* the statement op has been executed and did not raise
Completed(op) == failedAt # op /\ \E i \in 1..Len(calls) : calls[i].op = op

Last(s) == s[Len(s)]

OverrideKeys == {"maxIter", "regParam", "threshold", "probabilityCol"}

\* C1: once line 63 has run, paramMapCombined has exactly the four keys
\* maxIter, regParam, threshold, probabilityCol, each with its last-written
\* value: 30, 0.1, 0.55, "myProbability".
C1_CombinedMap ==
    Completed("updateCombined") =>
        LET d == heap[paramMapCombined] IN
        /\ DOMAIN d = OverrideKeys
        /\ d["maxIter"] = 30
        /\ d["regParam"] = 10
        /\ d["threshold"] = 55
        /\ d["probabilityCol"] = "myProbability"

C1_Witness == pc = "fit2" /\ status = "running" /\ Cardinality(DOMAIN heap[paramMapCombined]) = 4

\* C2: the parameter map extracted from model2 holds, for every key of
\* paramMapCombined, the overriding value; maxIter is 30 (not 20, not 10)
\* and regParam is 0.1 (not 0.01).
C2_Model2Params ==
    model2.bound =>
        LET m == ExtractParamMap(model2)
            d == heap[paramMapCombined] IN
        /\ DOMAIN d = OverrideKeys
        /\ \A k \in DOMAIN d : k \in DOMAIN m /\ m[k] = d[k]
        /\ m["maxIter"] = 30
        /\ m["regParam"] = 10

C2_Witness ==
    /\ Completed("extract2")
    /\ Last(stdout).kind = "model2"
    /\ Last(stdout).val["maxIter"] = 30

OwnValues ==
    [maxIter |-> 10, regParam |-> 1, threshold |-> 50, probabilityCol |-> "probability"]

\* C3: from its construction on, and in particular after the fit with
\* paramMapCombined, lr keeps its own values maxIter = 10, regParam = 0.01,
\* and a fit of lr without overrides yields a model with lr's own values
\* and the default threshold and probabilityCol.
C3_EstimatorUnchanged ==
    lr.bound =>
        /\ DOMAIN lr.paramMap = {"maxIter", "regParam"}
        /\ lr.paramMap["maxIter"] = 10
        /\ lr.paramMap["regParam"] = 1
        /\ \A c \in Coefs :
              LET m == Fit(lr, training, EmptyDict, c).params IN
              /\ DOMAIN m = OverrideKeys
              /\ \A k \in OverrideKeys : m[k] = OwnValues[k]

C3_Witness == Completed("fit2") /\ model2.bound /\ model2.params["maxIter"] = 30 /\ lr.bound

\* C4: the DataFrame returned by model2.transform(test) has a column
\* "myProbability" and no column "probability", so every column named in
\* the select of line 82 exists.
C4_ProbabilityColumn ==
    prediction.bound =>
        /\ "myProbability" \in Range(prediction.columns)
        /\ "probability" \notin Range(prediction.columns)
        /\ CanSelect(prediction, SelectedColumns)
        /\ \A i \in 1..Len(prediction.rows) :
              Range(SelectedColumns) \subseteq DOMAIN prediction.rows[i]

C4_Witness == Completed("select") /\ selected.bound /\ selected.columns = SelectedColumns

\* C5: model2.transform(test) has exactly 3 rows, one per test row in
\* order; each keeps the features and the label of its input row and
\* carries the columns "myProbability" and "prediction".
C5_TransformRows ==
    prediction.bound =>
        /\ Len(prediction.rows) = 3
        /\ Len(test.rows) = 3
        /\ \A i \in 1..3 :
              /\ prediction.rows[i]["features"] = test.rows[i]["features"]
              /\ prediction.rows[i]["label"] = test.rows[i]["label"]
              /\ prediction.rows[i]["features"] = TestTuples[i][2]
              /\ prediction.rows[i]["label"] = TestTuples[i][1]
              /\ {"myProbability", "prediction"} \subseteq DOMAIN prediction.rows[i]
              /\ prediction.rows[i]["prediction"] \in {0, 1}

C5_Witness == Completed("transform") /\ prediction.bound /\ Len(prediction.rows) = 3 /\ rowIdx = 3

Model1Snapshot ==
    model1.bound =>
        /\ DOMAIN model1.params = OverrideKeys
        /\ model1.params["maxIter"] = 10
        /\ model1.params["regParam"] = 1

\* C6: model1's parameter map holds maxIter = 10 and regParam = 0.01, and
\* once model1 is bound no later step (building the override maps, the
\* second fit, the transform) changes it.
C6_Model1Snapshot ==
    /\ []Model1Snapshot
    /\ [][model1.bound => model1' = model1]_vars

C6_Witness == model1.bound /\ model2.bound /\ prediction.bound /\ paramMapCombined # 0

ContextDiscipline ==
    /\ acquires \in {0, 1}
    /\ releases \in {0, 1}
    /\ (acquires = 1) <=> Completed("context")
    /\ calls # <<>> => calls[1].op = "context" /\ calls[1].ctx = "none"
    /\ \A i \in 2..Len(calls) : calls[i].ctx = "active" /\ calls[i].op # "context"
    /\ \A i \in 1..Len(calls) : calls[i].op = "stop" => i = Len(calls)
    /\ (releases = 1) <=> (status = "exited")
    /\ (releases = 1) <=> Completed("stop")
    /\ (sc = "active") <=> (acquires = 1 /\ releases = 0)
    /\ status = "exited" =>
          /\ pc = "done"
          /\ sc = "stopped"
          /\ Last(calls).op = "stop"
          /\ \A op \in LibraryCalls : Completed(op)

\* C7: the context is acquired once, by the first statement, and released
\* once, by the last; every other statement runs while the context is
\* held; nothing runs after the release; the script terminates.
C7_ContextLifecycle ==
    /\ []ContextDiscipline
    /\ [][status = "running"]_vars
    /\ <>(status # "running")

C7_Witness == status = "exited" /\ acquires = 1 /\ releases = 1 /\ Len(stdout) = 6

FailureIsFinal ==
    failedAt # "none" =>
        /\ status = "aborted"
        /\ pc = failedAt
        /\ Last(calls).op = failedAt
        /\ Cardinality({i \in 1..Len(calls) : calls[i].op = failedAt}) = 1

\* C8: when a library call fails the script ends at that call: the call is
\* attempted once, it is the last statement executed, and no step follows.
C8_FailurePropagates ==
    /\ []FailureIsFinal
    /\ [][status # "aborted"]_vars

C8_Witness == status = "aborted" /\ failedAt = "fit2" /\ model1.bound /\ ~model2.bound

MergeResult ==
    Completed("updateCombined") =>
        LET A == heap[paramMap]
            B == heap[paramMap2]
            C == heap[paramMapCombined] IN
        /\ DOMAIN C = DOMAIN A \cup DOMAIN B
        /\ \A k \in DOMAIN B : C[k] = B[k]
        /\ \A k \in DOMAIN A \ DOMAIN B : C[k] = A[k]

\* C9: for any maps A and B, copying A and updating the copy with B gives
\* a map over the union of the keys, with B's value on every key of B and
\* A's value on every key of A alone; A and B themselves are the inputs
\* throughout.
C9_Merge ==
    /\ []MergeResult
    /\ [][heap'[paramMap] = heap[paramMap] /\ heap'[paramMap2] = heap[paramMap2]]_vars

C9_Witness ==
    /\ Completed("updateCombined")
    /\ \E k \in DOMAIN heap[paramMap] \cap DOMAIN heap[paramMap2] :
          heap[paramMap][k] # heap[paramMap2][k]
    /\ DOMAIN heap[paramMap] \ DOMAIN heap[paramMap2] # {}
    /\ DOMAIN heap[paramMap2] \ DOMAIN heap[paramMap] # {}

\* C10: after lines 62-63, paramMap still has exactly maxIter = 30,
\* regParam = 0.1, threshold = 0.55 and paramMap2 exactly
\* probabilityCol = "myProbability".
C10_InputsKept ==
    Completed("updateCombined") =>
        LET a == heap[paramMap]
            b == heap[paramMap2] IN
        /\ DOMAIN a = {"maxIter", "regParam", "threshold"}
        /\ a["maxIter"] = 30
        /\ a["regParam"] = 10
        /\ a["threshold"] = 55
        /\ DOMAIN b = {"probabilityCol"}
        /\ b["probabilityCol"] = "myProbability"
        /\ paramMapCombined \notin {paramMap, paramMap2}

C10_Witness ==
    /\ Completed("updateCombined")
    /\ "probabilityCol" \in DOMAIN heap[paramMapCombined]
    /\ "probabilityCol" \notin DOMAIN heap[paramMap]

====
